---- MODULE Spec2Model ----
(***************************************************************************)
(* A model of the HDR bracket-merging workflow                            *)
(* (scripts/import_sd/workflows/hdr.py), of the Hugin alignment provider   *)
(* (scripts/import_sd/providers/align/hugin.py), of the Instagram archiver *)
(* (scripts/archive/insta.py) and of the Immich uploader                   *)
(* (scripts/thumbnails/upload/progressive.py).                             *)
(*                                                                         *)
(* A file name is a sequence of string tokens (<<"b1p1", ".arw">>), a path *)
(* a record [dir, name]; dir "." is a relative path, which the operating   *)
(* system resolves against the working directory "cwd".  The disk is the   *)
(* set of absolute paths of the files that exist.                          *)
(*                                                                         *)
(* handle_conflict is modelled on the parameter type it declares (an       *)
(* object with .filename and .extension).                                  *)
(***************************************************************************)
EXTENDS Integers, Sequences, FiniteSets, TLC

VARIABLES
    files,       \* the disk: the set of absolute paths that exist
    onconflict,  \* HDRWorkflow.onconflict
    dry_run,     \* HDRWorkflow.dry_run
    pc,          \* position of the running operation
    brackets,    \* what find_brackets returned: a sequence of sequences of Photo
    cur,         \* index of the bracket process_brackets is at
    hdrs,        \* process_brackets' list of produced HDR photos
    res,         \* per bracket: how process_bracket ended
    exc,         \* the exception travelling out of process_brackets ("" = none)
    run_result,  \* what run() returned ("unset", "True", "False")
    hdrpath,     \* process_bracket's local hdrpath
    tiff_files,  \* align_images' local tiff_files
    images,      \* align_images' aligned_photos / process_bracket's images
    pending,     \* what a try block ended with, while its finally clause runs
    created,     \* per bracket: the paths its convert and align stages created
    calls,       \* per bracket: the external tools invoked, in order
    snap,        \* the disk when the current process_bracket was entered
    deleted,     \* the paths the clean-up code of the run has deleted so far
    clobbered,   \* the existing paths the run wrote over without resolving a conflict
    exit_code,   \* the exit code of the process (-1 while it runs)
    hc,          \* the handle_conflict call under observation
    hg,          \* the HuginProvider.next call under observation
    nm,          \* the name_hdr call under observation
    removed,     \* the directories run() has called rmdir for, in order
    ig,          \* the InstaloaderRunner whose run() is under observation
    up           \* the ImmichProgressiveUploader.upload call under observation

vars == <<files, onconflict, dry_run, pc, brackets, cur, hdrs, res, exc, run_result,
          hdrpath, tiff_files, images, pending, created, calls, snap, deleted, clobbered,
          exit_code, hc, hg, nm, ig, up, removed>>

wfvars == <<brackets, cur, hdrs, res, exc, run_result, hdrpath, tiff_files, images,
            pending, created, calls, snap, deleted, clobbered, exit_code, removed>>

-----------------------------------------------------------------------------
(* Bounds of the model *)

MaxBrackets == 2
MaxPhotos == 2
MaxTaken == 3

(* range(1, 100): the probes of the rename policy are 1 .. 99 *)
ProbeLimit == 99

-----------------------------------------------------------------------------
(* Paths *)

Policies == {"overwrite", "rename", "skip", "fail"}

P(dir, name) == [dir |-> dir, name |-> name]

NoPath == P("", <<>>)

IsAbs(p) == p.dir # "."

\* os.path.join(dir, p): an absolute second argument discards the first
Join(dir, p) == IF IsAbs(p) THEN p ELSE P(dir, p.name)

\* the file a path names: a relative path is resolved against the working directory
Abs(p) == Join("cwd", p)

\* os.path.exists
Exists(fs, p) == Abs(p) \in fs

Last(s) == s[Len(s)]

Front(s) == SubSeq(s, 1, Len(s) - 1)

\* str.replace(old, new) on a file name: every occurrence is replaced
RECURSIVE ReplaceTok(_, _, _)
ReplaceTok(s, old, new) ==
    IF s = <<>> THEN <<>>
    ELSE (IF Head(s) = old THEN new ELSE <<Head(s)>>) \o ReplaceTok(Tail(s), old, new)

\* path + '_original': the backup exiftool leaves beside the file it rewrites
Original(p) == P(p.dir, p.name \o <<"_original">>)

\* f'_{i:02d}'
SuffixTok(i) == "_" \o (IF i < 10 THEN "0" ELSE "") \o ToString(i)

\* f'{idx:04}'
Pad4(i) ==
    (IF i < 10 THEN "000" ELSE IF i < 100 THEN "00" ELSE IF i < 1000 THEN "0" ELSE "")
        \o ToString(i)

\* Workflow.delete(path): the file is gone afterwards
delete(fs, p) == fs \ {Abs(p)}

\* Workflow.rename(src, dst), FilePath.rename: the file moves, replacing what was at dst
rename(fs, src, dst) == (fs \ {Abs(src)}) \cup {Abs(dst)}

\* A Photo is a handle to a file: its path and the metadata name_hdr reads
\* (camera and lens are sequences of the words a space separates)
Photo(path, meta) ==
    [path |-> path, date |-> meta.date, camera |-> meta.camera, number |-> meta.number,
     lens |-> meta.lens, iso |-> meta.iso, ss |-> meta.ss,
     brightness |-> meta.brightness, exposure_value |-> meta.exposure_value]

NoMeta ==
    [date |-> "", camera |-> <<>>, number |-> 0, lens |-> <<>>, iso |-> 0, ss |-> 0,
     brightness |-> 0, exposure_value |-> 0]

\* Workflow.get_photo(path), Photo(path): a handle to the file at path
get_photo(path) == Photo(path, NoMeta)

\* the value None where a Photo is expected
None == get_photo(NoPath)

SetMin(S) == CHOOSE x \in S : \A y \in S : x <= y

-----------------------------------------------------------------------------
(* handle_conflict *)

Outcome(kind, path, e, fs) == [kind |-> kind, path |-> path, exc |-> e, files |-> fs]

\* path.filename.replace(f'.{path.extension}', f'_{i:02d}.{path.extension}'):
\* the directory of path is not part of the result
RenameProbe(path, i) ==
    P(".", ReplaceTok(path.name, Last(path.name), <<SuffixTok(i), Last(path.name)>>))

\* lines 439-443: for i in range(1, 100), the first probe that does not exist is
\* returned; RuntimeError when every probe exists
RenameLoop(path, fs) ==
    LET free == { i \in 1 .. ProbeLimit : ~Exists(fs, RenameProbe(path, i)) }
    IN IF free = {} THEN Outcome("raise", NoPath, "RuntimeError", fs)
       ELSE Outcome("path", RenameProbe(path, SetMin(free)), "", fs)

SkipAsProceed(path, fs) == Outcome("path", path, "", fs)

\* lines 426-428
SkipCase(path, fs) == Outcome("none", NoPath, "", fs)

OverwriteNoDelete(path, fs) == Outcome("path", path, "", fs)

\* lines 430-434
OverwriteCase(path, fs) == Outcome("path", path, "", delete(fs, path))

FailAfterDelete(path, fs) == Outcome("raise", NoPath, "FileExistsError", delete(fs, path))

\* lines 445-447
FailCase(path, fs) == Outcome("raise", NoPath, "FileExistsError", fs)

handle_conflict(policy, path, fs) ==
    CASE policy = "skip" -> SkipCase(path, fs)
      [] policy = "overwrite" -> OverwriteCase(path, fs)
      [] policy = "rename" -> RenameLoop(path, fs)
      [] policy = "fail" -> FailCase(path, fs)
      [] OTHER -> Outcome("raise", NoPath, "ValueError", fs)

-----------------------------------------------------------------------------
(* Idle values of the variables an operation does not use *)

NoCall == [path |-> NoPath, before |-> {}, out |-> Outcome("", NoPath, "", {})]

NoHugin ==
    [photos |-> <<>>, stack_ok |-> FALSE, missing |-> FALSE, exif_ok |-> FALSE,
     aligned_photos |-> <<>>, pending |-> "", result |-> <<>>, ending |-> ""]

NoName == [photos |-> <<>>, dirlen |-> 0, short |-> FALSE, result |-> <<>>]

NoInsta ==
    [profiles |-> <<>>, max_retries |-> 0, idx |-> 0, retries |-> 0, delay |-> 0,
     success_profiles |-> <<>>, failed_profiles |-> <<>>, attempts |-> <<>>,
     recorded |-> <<>>, ending |-> ""]

NoUpload ==
    [directories |-> <<>>, max_threads |-> 0, d |-> 0, futures |-> <<>>, result |-> <<>>,
     attempts |-> <<>>, updates |-> <<>>, fetched |-> {}, pending |-> "", status |-> <<>>,
     ending |-> ""]

RunnersIdle == ig = NoInsta /\ up = NoUpload

WorkflowIdle ==
    /\ brackets = <<>> /\ cur = 0 /\ hdrs = <<>> /\ res = <<>> /\ exc = ""
    /\ run_result = "unset" /\ hdrpath = NoPath /\ tiff_files = <<>> /\ images = <<>>
    /\ pending = [kind |-> "", value |-> None, exc |-> "", fault |-> ""]
    /\ created = {} /\ calls = <<>> /\ snap = {}
    /\ deleted = {} /\ clobbered = {} /\ exit_code = -1 /\ removed = <<>>

-----------------------------------------------------------------------------
(* handle_conflict applied to one existing path on one disk *)

ConflictPaths ==
    { P("hdr", <<"20230811", "x2", "_hdr", ".tif">>),
      P("tiff", <<"b1p1", ".tif">>),
      P("tiff", <<"b1p1", ".tif", ".tif">>) }

ProbeSets == (SUBSET (1 .. MaxTaken)) \cup {1 .. ProbeLimit}

\* the probes of path with the indices in idx, in directory dir
Probes(path, dir, idx) == { Join(dir, RenameProbe(path, i)) : i \in idx }

InitConflict ==
    /\ onconflict \in Policies
    /\ dry_run = FALSE
    /\ pc = "hc_call"
    /\ \E path \in ConflictPaths, here \in ProbeSets, there \in SUBSET (1 .. MaxTaken) :
          /\ files = {path} \cup Probes(path, "cwd", here) \cup Probes(path, path.dir, there)
          /\ hc = [path |-> path, before |-> files, out |-> Outcome("", NoPath, "", {})]
    /\ hg = NoHugin
    /\ nm = NoName
    /\ WorkflowIdle
    /\ RunnersIdle

HandleConflict ==
    /\ pc = "hc_call"
    /\ LET out == handle_conflict(onconflict, hc.path, files)
       IN /\ hc' = [hc EXCEPT !.out = out]
          /\ files' = out.files
    /\ pc' = "hc_done"
    /\ UNCHANGED <<onconflict, dry_run, hg, nm>>
    /\ UNCHANGED <<wfvars, ig, up>>

NextConflict == HandleConflict

SpecConflict == InitConflict /\ [][NextConflict]_vars

-----------------------------------------------------------------------------
(* HuginProvider.next *)

\* aligned_path.file(f'aligned_tmp_{idx:04}.tif'), idx counted from 0
Expected(i) == P("aligned", <<"aligned_tmp_", Pad4(i - 1), ".tif">>)

\* photo.change_extension('tif', '_aligned'), as the name aligned.rename moves to
FinalPath(photo) == P("aligned", Front(photo.path.name) \o <<"_aligned", ".tif">>)

HuginInput(n) == [i \in 1 .. n |-> get_photo(P("tiff", <<"b1p" \o ToString(i), ".tif">>))]

HuginLeftovers ==
    {Expected(1), Expected(2), FinalPath(HuginInput(1)[1]), Original(Expected(1))}

InitHugin ==
    /\ onconflict \in {"overwrite"}
    /\ dry_run = FALSE
    /\ pc = "hg_call"
    /\ hc = NoCall
    /\ \E n \in 1 .. MaxPhotos, left \in SUBSET HuginLeftovers :
          /\ files = {HuginInput(n)[i].path : i \in 1 .. n} \cup left
          /\ hg = [NoHugin EXCEPT !.photos = HuginInput(n)]
    /\ nm = NoName
    /\ WorkflowIdle
    /\ RunnersIdle

\* the loop of lines 89-100 from photo i on; exiftool fails at photo k (0: never)
RECURSIVE HuginExifLoop(_, _, _, _)
HuginExifLoop(photos, i, k, st) ==
    IF i > Len(photos) THEN [st EXCEPT !.pending = "return_list"]
    ELSE IF i = k THEN [st EXCEPT !.pending = "return_empty"]
    ELSE HuginExifLoop(photos, i + 1, k,
            [st EXCEPT !.files = rename(@ \cup {Original(Expected(i))},
                                        Expected(i), FinalPath(photos[i])),
                       !.aligned_photos = Append(@, get_photo(FinalPath(photos[i])))])

\* lines 70-76: align_image_stack writes some of its outputs and exits normally,
\* or raises CalledProcessError (lines 102-104)
HuginAlignStack ==
    /\ pc = "hg_call"
    /\ \E ok \in BOOLEAN, produced \in SUBSET (1 .. Len(hg.photos)) :
          /\ files' = files \cup {Expected(i) : i \in produced}
          /\ hg' = [hg EXCEPT !.stack_ok = ok,
                              !.missing = (\E i \in 1 .. Len(hg.photos) :
                                              Expected(i) \notin files'),
                              !.pending = IF ok THEN "" ELSE "return_empty"]
          /\ pc' = IF ok THEN "hg_verify" ELSE "hg_finally"
    /\ UNCHANGED <<onconflict, dry_run, hc, nm>>
    /\ UNCHANGED <<wfvars, ig, up>>

\* lines 78-86: a missing output ends in sys.exit(1); the return after it is never reached
HuginVerify ==
    /\ pc = "hg_verify"
    /\ IF \E i \in 1 .. Len(hg.photos) : ~Exists(files, Expected(i))
       THEN /\ hg' = [hg EXCEPT !.pending = "exit"]
            /\ pc' = "hg_finally"
       ELSE /\ hg' = hg
            /\ pc' = "hg_exif"
    /\ UNCHANGED <<files, onconflict, dry_run, hc, nm>>
    /\ UNCHANGED <<wfvars, ig, up>>

\* lines 88-100, and lines 102-104 when exiftool raises CalledProcessError
HuginExif ==
    /\ pc = "hg_exif"
    /\ \E k \in 0 .. Len(hg.photos) :
          LET st == HuginExifLoop(hg.photos, 1, k,
                        [files |-> files, aligned_photos |-> <<>>, pending |-> ""])
          IN /\ files' = st.files
             /\ hg' = [hg EXCEPT !.aligned_photos = st.aligned_photos,
                                 !.pending = st.pending, !.exif_ok = (k = 0)]
    /\ pc' = "hg_finally"
    /\ UNCHANGED <<onconflict, dry_run, hc, nm>>
    /\ UNCHANGED <<wfvars, ig, up>>

RECURSIVE DeleteAll(_, _)
DeleteAll(fs, photos) ==
    IF photos = <<>> THEN fs ELSE DeleteAll(delete(fs, Head(photos).path), Tail(photos))

\* lines 106-112: the finally clause deletes every aligned photo, then next ends
HuginFinally ==
    /\ pc = "hg_finally"
    /\ files' = DeleteAll(files, hg.aligned_photos)
    /\ hg' = [hg EXCEPT
                !.result = IF hg.pending = "return_list" THEN hg.aligned_photos ELSE <<>>,
                !.ending = IF hg.pending = "exit" THEN "exit" ELSE "return"]
    /\ pc' = "hg_done"
    /\ UNCHANGED <<onconflict, dry_run, hc, nm>>
    /\ UNCHANGED <<wfvars, ig, up>>

NextHugin == HuginAlignStack \/ HuginVerify \/ HuginExif \/ HuginFinally

SpecHugin == InitHugin /\ [][NextHugin]_vars

-----------------------------------------------------------------------------
(* name_hdr *)

SetMax(S) == CHOOSE x \in S : \A y \in S : x >= y

RECURSIVE SeqSum(_)
SeqSum(s) == IF s = <<>> THEN 0 ELSE Head(s) + SeqSum(Tail(s))

RECURSIVE NameLen(_)
NameLen(s) == IF s = <<>> THEN 0 ELSE Len(Head(s)) + NameLen(Tail(s))

\* the words of a text joined by sep: ' ' as the text reads, '-' after replace(' ', '-')
RECURSIVE JoinWords(_, _)
JoinWords(words, sep) ==
    IF words = <<>> THEN ""
    ELSE IF Len(words) = 1 THEN words[1]
    ELSE words[1] \o sep \o JoinWords(Tail(words), sep)

\* f'{ev}' of the float sum / n, to one decimal (the model's values are whole or half)
FloatStr(sum, n) ==
    LET tenths == ((IF sum < 0 THEN -sum ELSE sum) * 10) \div n
    IN (IF sum < 0 THEN "-" ELSE "") \o ToString(tenths \div 10) \o "." \o ToString(tenths % 10)

\* len(os.path.join(self.hdr_path, filename)) for a base path of BasePathLen characters
BasePathLen == 24

HdrPathLen == BasePathLen + 4

short_filename(photos) ==
    <<photos[1].date, "_", ToString(photos[1].number), "_x", ToString(Len(photos)), "_",
      FloatStr(SeqSum([i \in 1 .. Len(photos) |-> photos[i].exposure_value]), Len(photos)),
      "EV", "_hdr", ".tif">>

long_filename(photos, sep) ==
    <<photos[1].date, "_", JoinWords(photos[1].camera, sep), "_", ToString(photos[1].number),
      "_x", ToString(Len(photos)), "_",
      ToString(SetMin({photos[i].brightness : i \in 1 .. Len(photos)})), "B_",
      FloatStr(SeqSum([i \in 1 .. Len(photos) |-> photos[i].exposure_value]), Len(photos)),
      "EV_", ToString(SetMax({photos[i].iso : i \in 1 .. Len(photos)})), "ISO_",
      ToString(SetMax({photos[i].ss : i \in 1 .. Len(photos)})), "SS_",
      JoinWords(photos[1].lens, sep), "_hdr", ".tif">>

name_hdrOffByOne(photos, dirlen, short) ==
    IF short THEN short_filename(photos)
    ELSE IF dirlen + 1 + NameLen(long_filename(photos, "-")) >= 255
         THEN short_filename(photos)
         ELSE long_filename(photos, "-")

\* name_hdr(photos, output_dir, short): dirlen is len(output_dir)
name_hdr(photos, dirlen, short) ==
    IF short THEN short_filename(photos)
    ELSE IF dirlen + 1 + NameLen(long_filename(photos, "-")) > 255
         THEN short_filename(photos)
         ELSE long_filename(photos, "-")

-----------------------------------------------------------------------------
(* The brackets of a run *)

RawExts == {".arw", ".dng"}

RawMeta(b, i) ==
    [date |-> "20230811", camera |-> <<"ILCE", "7M3">>, number |-> 10 * b + i,
     lens |-> <<"FE", "24", "70mm">>, iso |-> 100 * i, ss |-> i, brightness |-> i,
     exposure_value |-> 2 * i - 3]

RawPhoto(b, i, ext) == Photo(P("base", <<"b" \o ToString(b) \o "p" \o ToString(i), ext>>),
                             RawMeta(b, i))

Bracket(b, n, ext) == [i \in 1 .. n |-> RawPhoto(b, i, ext)]

\* os.path.join(self.hdr_path, self.name_hdr(photos)), lines 326-327
HdrPathOf(photos) == P("hdr", name_hdr(photos, HdrPathLen, FALSE))

\* arw.filename.lower(): the names of the model are lower-case but for '.ARW'
Lower(name) == [i \in 1 .. Len(name) |-> IF name[i] = ".ARW" THEN ".arw" ELSE name[i]]

TiffPathBesideRaw(arw) ==
    P(arw.path.dir, ReplaceTok(Lower(arw.path.name), ".arw", <<".tif">>))

\* lines 148-149
TiffPathOf(arw) == P("tiff", ReplaceTok(Lower(arw.path.name), ".arw", <<".tif">>))

\* line 220: os.path.join(self.aligned_path, f'aligned_{idx:04}.tif'), idx from 0
AlignedOut(i) == P("aligned", <<"aligned_", Pad4(i - 1), ".tif">>)

\* lines 222-223: re.sub(rf'\.{photo.extension}$', '_aligned.tif', photo.filename)
AlignedPathOf(photo) == P("aligned", Front(photo.path.name) \o <<"_aligned", ".tif">>)

-----------------------------------------------------------------------------
(* name_hdr applied to one bracket, one output directory and one short flag *)

NameSlack == 1

NameCameras == { <<"ILCE", "7M3">>, <<"X100V">>, <<"Canon", "EOS", "5D", "Mark", "IV">> }

NameLenses == { <<"FE", "24", "70mm">>, <<"E16">>, <<"Sigma", "35mm", "F1.4", "DG">> }

\* a bracket of n photos taken with one camera and one lens
NamedBracket(n, camera, lens) ==
    [i \in 1 .. n |->
        Photo(P("base", <<"b1p" \o ToString(i), ".arw">>),
              [RawMeta(1, i) EXCEPT !.camera = camera, !.lens = lens])]

\* the lengths of output_dir: self.hdr_path, and those that bring the long path to
\* the limit of line 497, NameSlack characters to either side of it
NameDirLens(photos) ==
    {HdrPathLen}
        \cup { 254 - NameLen(long_filename(photos, "-")) + d : d \in -NameSlack .. NameSlack }

InitName ==
    /\ onconflict = "overwrite"
    /\ dry_run = FALSE
    /\ files = {}
    /\ pc = "nm_call"
    /\ hc = NoCall
    /\ hg = NoHugin
    /\ \E n \in 1 .. MaxPhotos, camera \in NameCameras, lens \in NameLenses,
          short \in BOOLEAN :
          \E dirlen \in NameDirLens(NamedBracket(n, camera, lens)) :
              nm = [photos |-> NamedBracket(n, camera, lens), dirlen |-> dirlen,
                    short |-> short, result |-> <<>>]
    /\ WorkflowIdle
    /\ RunnersIdle

NameHdr ==
    /\ pc = "nm_call"
    /\ nm' = [nm EXCEPT !.result = name_hdr(nm.photos, nm.dirlen, nm.short)]
    /\ pc' = "nm_done"
    /\ UNCHANGED <<files, onconflict, dry_run, hc, hg>>
    /\ UNCHANGED <<wfvars, ig, up>>

NextName == NameHdr

SpecName == InitName /\ [][NextName]_vars

-----------------------------------------------------------------------------
(* HDRWorkflow.run *)

NoPending == [kind |-> "", value |-> None, exc |-> "", fault |-> ""]

PendingReturn(value, fault) == [kind |-> "return", value |-> value, exc |-> "", fault |-> fault]

PendingRaise(e, fault) == [kind |-> "raise", value |-> None, exc |-> e, fault |-> fault]

\* the disks a run can start on: what earlier runs left behind
Leftovers(bs) ==
    IF bs = <<>> THEN {{}}
    ELSE LET hdr == HdrPathOf(bs[1])
             tif == TiffPathOf(bs[1][1])
         IN (SUBSET {hdr, tif})
                \cup { {hdr} \cup Probes(hdr, "hdr", {1}),
                       {hdr} \cup Probes(hdr, "cwd", 1 .. ProbeLimit),
                       {tif, AlignedOut(1), AlignedOut(2)} }

Init ==
    /\ onconflict \in Policies
    /\ dry_run \in BOOLEAN
    /\ pc = "start"
    /\ \E nb \in 0 .. MaxBrackets, n \in 2 .. MaxPhotos, ext \in RawExts :
          /\ brackets = [b \in 1 .. nb |-> Bracket(b, n, ext)]
          /\ \E left \in Leftovers(brackets) :
                files = left \cup {brackets[b][i].path : b \in 1 .. nb, i \in 1 .. n}
    /\ cur = 0 /\ hdrs = <<>> /\ res = <<>> /\ exc = "" /\ run_result = "unset"
    /\ hdrpath = NoPath /\ tiff_files = <<>> /\ images = <<>> /\ pending = NoPending
    /\ created = {} /\ calls = <<>> /\ snap = {}
    /\ deleted = {} /\ clobbered = {} /\ exit_code = -1
    /\ hc = NoCall /\ hg = NoHugin /\ nm = NoName /\ removed = <<>>
    /\ RunnersIdle

\* the state of a stage: the disk, the list built so far, what was created and
\* called, the exception that ended the loop ("" = none), and the failure of an
\* external tool that the stage met ("" = none); with them what the stage observes:
\* the paths handle_conflict resolved for it, the paths its clean-up deleted and the
\* existing paths it wrote over without resolving a conflict
Stage(fs, list, cr, cl, e, fault) ==
    [files |-> fs, list |-> list, created |-> cr, calls |-> cl, exc |-> e, fault |-> fault,
     resolved |-> {}, deleted |-> {}, clobbered |-> {}]

\* the stage state of the bracket in progress, on disk fs
Now(fs) ==
    [Stage(fs, <<>>, created, calls, "", pending.fault)
        EXCEPT !.deleted = deleted, !.clobbered = clobbered]

\* a write to path p on the disk of st: a file that is there and that no
\* handle_conflict call was made for is written over
Write(st, p) ==
    [st EXCEPT !.clobbered = @ \cup (({Abs(p)} \cap st.files) \ st.resolved)]

\* how a process_bracket call ended, as process_brackets and the disk see it
Ended(kind, value, e, st) ==
    [kind |-> kind, value |-> value, exc |-> e, calls |-> st.calls, fault |-> st.fault,
     written |-> st.created,
     hdr_after |-> Exists(st.files, HdrPathOf(brackets[cur])),
     leftover |-> st.created \cap st.files, untouched |-> (st.files = snap),
     existed |-> Exists(snap, HdrPathOf(brackets[cur]))]

\* process_bracket returns value to the loop of lines 375-378, which goes on
Returns(value, st) ==
    /\ files' = st.files
    /\ res' = Append(res, Ended(IF value = None THEN "none" ELSE "photo", value, "", st))
    /\ hdrs' = IF value # None THEN Append(hdrs, value) ELSE hdrs
    /\ IF cur < Len(brackets)
       THEN cur' = cur + 1 /\ pc' = "name"
       ELSE cur' = cur /\ pc' = "rmdir"
    /\ exc' = exc
    /\ hdrpath' = NoPath /\ tiff_files' = <<>> /\ images' = <<>> /\ pending' = NoPending
    /\ created' = {} /\ calls' = <<>> /\ snap' = st.files
    /\ deleted' = st.deleted /\ clobbered' = st.clobbered

\* an exception leaves process_bracket: nothing in process_brackets catches it
Raises(e, st) ==
    /\ files' = st.files
    /\ res' = Append(res, Ended("raise", None, e, st))
    /\ hdrs' = hdrs
    /\ cur' = cur /\ pc' = "rmdir"
    /\ exc' = e
    /\ hdrpath' = NoPath /\ tiff_files' = <<>> /\ images' = <<>> /\ pending' = NoPending
    /\ created' = {} /\ calls' = <<>> /\ snap' = st.files
    /\ deleted' = st.deleted /\ clobbered' = st.clobbered

\* lines 364-374
ProcessBracketsStart ==
    /\ pc = "start"
    /\ IF brackets = <<>>
       THEN cur' = cur /\ pc' = "rmdir"
       ELSE cur' = 1 /\ pc' = "name"
    /\ snap' = files
    /\ UNCHANGED <<files, onconflict, dry_run, brackets, hdrs, res, exc, run_result, hdrpath,
                   tiff_files, images, pending, created, calls, deleted, clobbered,
                   exit_code, hc, hg, nm, ig, up, removed>>

\* lines 322-334: the HDR's name, and its conflict resolved early
NameAndResolve ==
    /\ pc = "name"
    /\ LET hp == HdrPathOf(brackets[cur])
           out == handle_conflict(onconflict, hp, files)
       IN IF brackets[cur] = <<>> THEN Raises("ValueError", Now(files))
          ELSE IF ~Exists(files, hp) \/ out.kind = "path"
          THEN /\ hdrpath' = IF Exists(files, hp) THEN out.path ELSE hp
               /\ files' = IF Exists(files, hp) THEN out.files ELSE files
               /\ pc' = "convert"
               /\ UNCHANGED <<cur, hdrs, res, exc, tiff_files, images, pending, created,
                              calls, snap, deleted, clobbered>>
          ELSE IF out.kind = "none" THEN Returns(get_photo(hp), Now(out.files))
          ELSE Raises(out.exc, Now(out.files))
    /\ UNCHANGED <<onconflict, dry_run, brackets, run_result, exit_code, hc, hg, nm, ig, up,
                   removed>>

\* lines 158-178 for one photo whose tiff_path is settled; the tool leaves no file
\* (fail = "missing"), exiftool exits abnormally (fail = "exif") or KeyboardInterrupt
\* arrives while the tool runs (fail = "interrupt")
ConvertOne(arw, tiff_path, fail, st) ==
    IF fail = "missing"
    THEN [st EXCEPT !.calls = Append(@, "darktable-cli"), !.exc = "FileNotFoundError",
                    !.fault = "convert_missing"]
    ELSE IF fail = "interrupt"
    THEN [st EXCEPT !.calls = Append(@, "darktable-cli"), !.exc = "KeyboardInterrupt",
                    !.fault = "interrupt"]
    ELSE IF fail = "exif"
    THEN [Write(st, tiff_path) EXCEPT
                    !.files = @ \cup {Abs(tiff_path)},
                    !.created = @ \cup {Abs(tiff_path)},
                    !.calls = @ \o <<"darktable-cli", "exiftool">>,
                    !.exc = "CalledProcessError", !.fault = "convert_exif"]
    ELSE [Write(st, tiff_path) EXCEPT
                    !.files = @ \cup {Abs(tiff_path), Abs(Original(tiff_path))},
                    !.created = @ \cup {Abs(tiff_path), Abs(Original(tiff_path))},
                    !.calls = @ \o <<"darktable-cli", "exiftool">>,
                    !.list = Append(@, get_photo(tiff_path))]

\* the loop of lines 146-178 from photo i on; photo k is the one whose conversion fails
RECURSIVE subprocess_tif(_, _, _, _, _, _)
subprocess_tif(policy, photos, i, k, fail, st) ==
    IF i > Len(photos) \/ st.exc # "" THEN st
    ELSE LET tiff_path == TiffPathOf(photos[i])
             out == handle_conflict(policy, tiff_path, st.files)
             how == IF i = k THEN fail ELSE "ok"
         IN IF ~Exists(st.files, tiff_path)
            THEN subprocess_tif(policy, photos, i + 1, k, fail,
                                ConvertOne(photos[i], tiff_path, how, st))
            ELSE IF out.kind = "none"
            THEN subprocess_tif(policy, photos, i + 1, k, fail, st)
            ELSE IF out.kind = "raise"
            THEN [st EXCEPT !.exc = out.exc]
            ELSE subprocess_tif(policy, photos, i + 1, k, fail,
                                ConvertOne(photos[i], out.path, how,
                                           [st EXCEPT !.files = out.files,
                                                      !.resolved = @ \cup {Abs(out.path)}]))

\* lines 197-207: align_images up to its try block; convert_to_tiff runs outside it
Convert ==
    /\ pc = "convert"
    /\ \E k \in 0 .. Len(brackets[cur]), fail \in {"missing", "exif", "interrupt"} :
          LET st == subprocess_tif(onconflict, brackets[cur], 1, k, fail, Now(files))
          IN IF st.exc # ""
             THEN Raises(st.exc, st)
             ELSE /\ files' = st.files
                  /\ tiff_files' = st.list
                  /\ created' = st.created
                  /\ calls' = st.calls
                  /\ deleted' = st.deleted
                  /\ clobbered' = st.clobbered
                  /\ pc' = "align"
                  /\ UNCHANGED <<cur, hdrs, res, exc, hdrpath, images, pending, snap>>
    /\ UNCHANGED <<onconflict, dry_run, brackets, run_result, exit_code, hc, hg, nm, ig, up,
                   removed>>

\* the loop of lines 218-232 from photo i on; exiftool fails at photo k (0: never)
RECURSIVE AlignLoop(_, _, _, _)
AlignLoop(photos, i, k, st) ==
    IF i > Len(photos) THEN st
    ELSE IF ~Exists(st.files, AlignedOut(i))
    THEN [st EXCEPT !.exc = "FileNotFoundError", !.fault = "align_missing"]
    ELSE LET aligned_path == AlignedPathOf(photos[i])
             moved == [Write(st, aligned_path) EXCEPT
                                 !.files = rename(@, AlignedOut(i), aligned_path),
                                 !.created = @ \cup {Abs(aligned_path)},
                                 !.calls = Append(@, "exiftool")]
         IN IF i = k THEN [moved EXCEPT !.exc = "CalledProcessError", !.fault = "align_exif"]
            ELSE AlignLoop(photos, i + 1, k,
                    [moved EXCEPT !.files = @ \cup {Abs(Original(aligned_path))},
                                  !.created = @ \cup {Abs(Original(aligned_path))},
                                  !.list = Append(@, get_photo(aligned_path))])

AlignExceptKeepsList(st) ==
    [st EXCEPT !.files = DeleteAll(@, st.list), !.exc = "",
               !.deleted = @ \cup {Abs(st.list[i].path) : i \in 1 .. Len(st.list)}]

\* lines 234-239: the aligned photos listed so far are deleted and [] is returned
AlignExcept(st) ==
    [st EXCEPT !.files = DeleteAll(@, st.list), !.list = <<>>, !.exc = "",
               !.deleted = @ \cup {Abs(st.list[i].path) : i \in 1 .. Len(st.list)}]

\* lines 209-239: the try block of align_images and its except clause;
\* align_image_stack writes its outputs in the order of its inputs and may stop early:
\* it exits normally (how = "ok"), exits abnormally (how = "fail"), or
\* KeyboardInterrupt arrives while it runs (how = "interrupt")
AlignTry ==
    /\ pc = "align"
    /\ \E how \in {"ok", "fail", "interrupt"}, produced \in 0 .. Len(tiff_files),
          k \in 0 .. Len(brackets[cur]) :
          /\ how # "ok" => k = 0
          \* a metadata copy is let fail only after a call that wrote every output
          /\ k > 0 => produced = Len(tiff_files)
          /\ LET outs == {AlignedOut(j) : j \in 1 .. produced}
                 ran == [Now(files \cup outs) EXCEPT
                            !.created = @ \cup outs,
                            !.calls = Append(@, "align_image_stack"),
                            !.fault = "",
                            !.clobbered = @ \cup (outs \cap files)]
                 st == IF how = "ok" THEN AlignLoop(brackets[cur], 1, k, ran)
                       ELSE IF how = "fail"
                       THEN [ran EXCEPT !.exc = "CalledProcessError", !.fault = "align_tool"]
                       ELSE [ran EXCEPT !.exc = "KeyboardInterrupt", !.fault = "interrupt"]
                 end == IF st.exc = "CalledProcessError" THEN AlignExcept(st) ELSE st
             IN /\ files' = end.files
                /\ created' = end.created
                /\ calls' = end.calls
                /\ images' = end.list
                /\ deleted' = end.deleted
                /\ clobbered' = end.clobbered
                /\ pending' = IF end.exc = "" THEN PendingReturn(None, end.fault)
                              ELSE PendingRaise(end.exc, end.fault)
    /\ pc' = "align_finally"
    /\ UNCHANGED <<onconflict, dry_run, brackets, cur, hdrs, res, exc, run_result, hdrpath,
                   tiff_files, snap, exit_code, hc, hg, nm, ig, up, removed>>

RECURSIVE DeleteTiffsUnchecked(_, _)
DeleteTiffsUnchecked(st, tiffs) ==
    IF tiffs = <<>> THEN st
    ELSE DeleteTiffsUnchecked(
            [st EXCEPT !.files = delete(delete(@, Head(tiffs).path),
                                        Original(Head(tiffs).path)),
                       !.deleted = @ \cup {Abs(Head(tiffs).path),
                                           Abs(Original(Head(tiffs).path))}],
            Tail(tiffs))

\* lines 243-250: every tiff file and its _original, unless a name does not end in .tif
RECURSIVE DeleteTiffs(_, _)
DeleteTiffs(st, tiffs) ==
    IF tiffs = <<>> THEN st
    ELSE IF Last(Head(tiffs).path.name) # ".tif" THEN [st EXCEPT !.exc = "ValueError"]
    ELSE DeleteTiffs([st EXCEPT !.files = delete(delete(@, Head(tiffs).path),
                                                 Original(Head(tiffs).path)),
                                !.deleted = @ \cup {Abs(Head(tiffs).path),
                                                    Abs(Original(Head(tiffs).path))}],
                     Tail(tiffs))

\* lines 241-252, and lines 336-339 of process_bracket
AlignFinally ==
    /\ pc = "align_finally"
    /\ LET st == DeleteTiffs(Now(files), tiff_files)
       IN IF st.exc # "" THEN Raises(st.exc, st)
          ELSE IF pending.kind = "raise" THEN Raises(pending.exc, st)
          ELSE IF images = <<>> THEN Returns(None, st)
          ELSE /\ files' = st.files
               /\ tiff_files' = <<>>
               /\ pending' = NoPending
               /\ deleted' = st.deleted
               /\ pc' = "fuse"
               /\ UNCHANGED <<cur, hdrs, res, exc, hdrpath, images, created, calls, snap,
                              clobbered>>
    /\ UNCHANGED <<onconflict, dry_run, brackets, run_result, exit_code, hc, hg, nm, ig, up,
                   removed>>

enfuseMissingGivesNone(filepath, how, dry, st) ==
    LET ran == [(IF how = "written" THEN Write(st, filepath) ELSE st) EXCEPT
                          !.calls = Append(@, "enfuse"),
                          !.files = IF how = "written" THEN @ \cup {Abs(filepath)} ELSE @]
    IN IF how = "fail" THEN [ran EXCEPT !.list = <<None>>, !.fault = "fuse_tool"]
       ELSE IF how = "interrupt"
       THEN [ran EXCEPT !.exc = "KeyboardInterrupt", !.fault = "interrupt"]
       ELSE IF ~dry /\ ~Exists(ran.files, filepath)
       THEN [ran EXCEPT !.list = <<None>>, !.fault = "fuse_missing"]
       ELSE [ran EXCEPT !.list = <<get_photo(filepath)>>]

\* lines 289-306 of create_hdr: enfuse fails, writes filepath, exits without writing
\* it, or KeyboardInterrupt arrives while it runs
enfuse(filepath, how, dry, st) ==
    LET ran == [(IF how = "written" THEN Write(st, filepath) ELSE st) EXCEPT
                          !.calls = Append(@, "enfuse"),
                          !.files = IF how = "written" THEN @ \cup {Abs(filepath)} ELSE @]
    IN IF how = "fail" THEN [ran EXCEPT !.list = <<None>>, !.fault = "fuse_tool"]
       ELSE IF how = "interrupt"
       THEN [ran EXCEPT !.exc = "KeyboardInterrupt", !.fault = "interrupt"]
       ELSE IF ~dry /\ ~Exists(ran.files, filepath)
       THEN [ran EXCEPT !.exc = "FileNotFoundError", !.fault = "fuse_missing"]
       ELSE [ran EXCEPT !.list = <<get_photo(filepath)>>]

\* create_hdr(photos, filename), lines 269-306; the result is st.list[1]
create_hdr(policy, filename, how, dry, st) ==
    LET filepath == Join("hdr", filename)
        out == handle_conflict(policy, filepath, st.files)
    IN IF ~Exists(st.files, filepath) THEN enfuse(filepath, how, dry, st)
       ELSE IF out.kind = "none" THEN [st EXCEPT !.list = <<None>>]
       ELSE IF out.kind = "raise" THEN [st EXCEPT !.exc = out.exc]
       ELSE enfuse(out.path, how, dry,
                   [st EXCEPT !.files = out.files, !.resolved = @ \cup {Abs(out.path)}])

\* line 342: the try block of process_bracket
Fuse ==
    /\ pc = "fuse"
    /\ \E how \in {"fail", "written", "nothing", "interrupt"} :
          LET st == create_hdr(onconflict, hdrpath, how, dry_run, Now(files))
          IN /\ files' = st.files
             /\ calls' = st.calls
             /\ clobbered' = st.clobbered
             /\ pending' = IF st.exc # "" THEN PendingRaise(st.exc, st.fault)
                           ELSE PendingReturn(st.list[1], st.fault)
    /\ pc' = "cleanup"
    /\ UNCHANGED <<onconflict, dry_run, brackets, cur, hdrs, res, exc, run_result, hdrpath,
                   tiff_files, images, created, snap, deleted, exit_code, hc, hg, nm, ig, up,
                   removed>>

EndsWithAligned(name) ==
    Len(name) >= 2 /\ SubSeq(name, Len(name) - 1, Len(name)) = <<"_aligned", ".tif">>

\* lines 345-353: every aligned image and its _original, unless a name is unexpected
RECURSIVE DeleteAligned(_, _)
DeleteAligned(st, imgs) ==
    IF imgs = <<>> THEN st
    ELSE IF ~EndsWithAligned(Head(imgs).path.name) THEN [st EXCEPT !.exc = "ValueError"]
    ELSE DeleteAligned([st EXCEPT !.files = delete(delete(@, Head(imgs).path),
                                                   Original(Head(imgs).path)),
                                  !.deleted = @ \cup {Abs(Head(imgs).path),
                                                      Abs(Original(Head(imgs).path))}],
                       Tail(imgs))

\* lines 343-355: the finally clause of process_bracket, then its return
Cleanup ==
    /\ pc = "cleanup"
    /\ LET st == DeleteAligned(Now(files), images)
       IN IF st.exc # "" THEN Raises(st.exc, st)
          ELSE IF pending.kind = "raise" THEN Raises(pending.exc, st)
          ELSE Returns(pending.value, st)
    /\ UNCHANGED <<onconflict, dry_run, brackets, run_result, exit_code, hc, hg, nm, ig, up,
                   removed>>

\* lines 100-112: the finally clause of run, then its result
run(e, produced) == IF e # "" THEN "unset" ELSE IF produced # <<>> THEN "True" ELSE "False"

\* lines 531-549: main exits 0 when run() returned True and 1 otherwise; an exception
\* out of run() ends the process with code 1, but KeyboardInterrupt is caught at
\* line 546 and the script then ends normally
main(result, e) ==
    IF e = "" THEN (IF result = "True" THEN 0 ELSE 1)
    ELSE IF e = "KeyboardInterrupt" THEN 0 ELSE 1

\* lines 102-105 when rmdir is left to the normal return of run()
rmdirOnReturnOnly(e, dirs) == IF e = "" THEN dirs \o <<"tiff", "aligned">> ELSE dirs

\* lines 102-105: the finally clause of run calls rmdir for tiff_path and aligned_path,
\* whether process_brackets returned or raised e
rmdir(e, dirs) == dirs \o <<"tiff", "aligned">>

\* run() ends and the process exits with main's code
RunFinally ==
    /\ pc = "rmdir"
    /\ pc' = IF exc # "" THEN "raised" ELSE "returned"
    /\ removed' = rmdir(exc, removed)
    /\ run_result' = run(exc, hdrs)
    /\ exit_code' = main(run_result', exc)
    /\ UNCHANGED <<files, onconflict, dry_run, brackets, cur, hdrs, res, exc, hdrpath,
                   tiff_files, images, pending, created, calls, snap, deleted, clobbered,
                   hc, hg, nm, ig, up>>

Next ==
    \/ ProcessBracketsStart
    \/ NameAndResolve
    \/ Convert
    \/ AlignTry
    \/ AlignFinally
    \/ Fuse
    \/ Cleanup
    \/ RunFinally

Spec == Init /\ [][Next]_vars

-----------------------------------------------------------------------------
(* Claims about the workflow *)

RunEnded == pc \in {"returned", "raised"}

(* C1: after process_bracket returns or raises, on every exit path, no file
   created by this bracket's convert or align stage (the TIFFs in hdr/tiff,
   the outputs of align_image_stack and the *_aligned.tif files in
   hdr/aligned, and their _original sidecars) remains on disk. *)
C1_NoIntermediateLeft ==
    \A b \in 1 .. Len(res) : res[b].leftover = {}

(* C2: when a stage of one bracket fails because of an external tool (a
   conversion output missing, an alignment subprocess error, a fusion output
   missing), only that bracket is abandoned: process_bracket is still
   invoked for every later bracket and the run collects their HDRs. *)
C2_ToolFailureAbandonsOnlyBracket ==
    ( /\ RunEnded
      /\ \E b \in 1 .. Len(res) :
            res[b].fault \in {"convert_missing", "align_tool", "fuse_missing"}
      /\ \A b \in 1 .. Len(res) :
            res[b].kind = "raise" => res[b].fault \in {"convert_missing", "fuse_missing"} )
        => (Len(res) = Len(brackets) /\ pc = "returned")

(* C3: when the conflict policy is fail and a path the workflow wants to
   write already exists, or the policy is rename and all 99 probes are
   taken, the failure stops only the bracket in which it occurred: the run
   continues with the next bracket and run() returns its boolean result. *)
C3_ConflictFailureStopsOnlyBracket ==
    ( /\ RunEnded
      /\ \E b \in 1 .. Len(res) : res[b].exc \in {"FileExistsError", "RuntimeError"} )
        => (Len(res) = Len(brackets) /\ pc = "returned" /\ run_result \in {"True", "False"})

(* C4 as claimed: for every non-empty bracket, process_bracket ends with a
   result that is the fused HDR Photo or None: whenever the convert, align
   or fuse stage fails (an expected output file being absent included), the
   result is None and no exception escapes process_bracket. *)
C4_StageFailureGivesNone ==
    \A b \in 1 .. Len(res) : res[b].fault \notin {"", "interrupt"} => res[b].kind = "none"

(* C4 as amended: process_bracket ends with the fused HDR Photo, with None
   or with an exception.  An abnormal exit of the alignment tool, of a
   metadata copy during alignment or of the fusion tool gives None (or the
   ValueError of the TIFF clean-up's name check); an expected output file
   being absent afterwards (a converted TIFF, an aligned output, the fused
   HDR outside dry-run) lets FileNotFoundError escape (or that ValueError),
   and a failed metadata copy during conversion lets CalledProcessError
   escape; a Photo is the result only when no stage failed. *)
C4_StageFailureNoneOrRaises ==
    \A b \in 1 .. Len(res) :
        LET r == res[b]
        IN /\ r.fault \in {"align_tool", "align_exif"}
                => (r.kind = "none" \/ (r.kind = "raise" /\ r.exc = "ValueError"))
           /\ r.fault = "fuse_tool" => r.kind = "none"
           /\ r.fault \in {"convert_missing", "align_missing"}
                => (r.kind = "raise" /\ r.exc \in {"FileNotFoundError", "ValueError"})
           /\ r.fault = "fuse_missing" => (r.kind = "raise" /\ r.exc = "FileNotFoundError")
           /\ r.fault = "convert_exif" => (r.kind = "raise" /\ r.exc = "CalledProcessError")
           /\ r.kind = "photo" => r.fault = ""

C4_Witness ==
    \E b \in 1 .. Len(res) :
        /\ res[b].fault = "fuse_missing"
        /\ res[b].kind = "raise"
        /\ res[b].exc = "FileNotFoundError"
        /\ "enfuse" = Last(res[b].calls)

(* C5: when the computed HDR output path already exists and the policy is
   skip, process_bracket returns a Photo for that pre-existing path, invokes
   no conversion, alignment or fusion subprocess and deletes nothing. *)
C5_SkipReturnsExisting ==
    \A b \in 1 .. Len(res) :
        (onconflict = "skip" /\ res[b].existed)
            => /\ res[b].kind = "photo"
               /\ res[b].value = get_photo(HdrPathOf(brackets[b]))
               /\ res[b].calls = <<>>
               /\ res[b].untouched

C5_Witness ==
    \E b \in 1 .. Len(res) :
        /\ onconflict = "skip"
        /\ res[b].existed
        /\ res[b].kind = "photo"
        /\ HdrPathOf(brackets[b]) \in files

(* C12: run() returns True exactly when at least one bracket produced an HDR
   Photo during this run, and False otherwise (zero brackets included); the
   exit code of the process is 0 exactly when run() returned True and 1
   otherwise. *)
C12_RunTrueIffHdrProduced ==
    RunEnded
        => /\ (run_result = "True") <=> (\E b \in 1 .. Len(res) : res[b].kind = "photo")
           /\ pc = "returned" => run_result \in {"True", "False"}
           /\ exit_code = (IF run_result = "True" THEN 0 ELSE 1)

(* C13: the conflict policy is applied to every path collision: whenever the
   convert, align or fuse stage writes a file at a path that already exists
   (a converted TIFF, an output of align_image_stack, a renamed *_aligned.tif,
   the final HDR), handle_conflict was consulted for that path first. *)
C13_EveryCollisionResolved ==
    clobbered = {}

Contains(seq, x) == \E i \in 1 .. Len(seq) : seq[i] = x

\* the clean-up of align_images ran for bracket b: its try block was entered
CleanupRan(b) == Contains(res[b].calls, "align_image_stack")

(* C14: during a bracket's clean-up a deletion is attempted for every
   intermediate artifact the bracket created: an artifact that fails the
   name check (or cannot be deleted) does not keep the others from being
   deleted and is not fatal to the bracket, so a bracket whose clean-up ran
   does not end with the ValueError of a name check and leaves none of its
   converted files behind. *)
C14_CleanupAttemptsEveryArtifact ==
    \A b \in 1 .. Len(res) :
        CleanupRan(b)
            => /\ res[b].exc # "ValueError"
               /\ \A p \in res[b].leftover : p.dir = "aligned"

\* the names the clean-up expects: a path ending in .tif for a converted file, a file
\* name ending in _aligned.tif for an aligned one, and the _original sidecar of either
Intermediate(p) ==
    LET base == IF Last(p.name) = "_original" THEN Front(p.name) ELSE p.name
    IN IF p.dir = "aligned" THEN EndsWithAligned(base) ELSE Last(base) = ".tif"

(* C15: the clean-up code never deletes a file whose name does not match the
   expected intermediate pattern: every path that align_images (its except
   clause included) and process_bracket delete matches it, and a bracket
   whose clean-up meets a converted file of another name ends with
   ValueError while that file is still on disk. *)
C15_CleanupDeletesOnlyIntermediates ==
    /\ \A p \in deleted : Intermediate(p)
    /\ \A b \in 1 .. Len(res) :
          \A p \in res[b].written :
              (CleanupRan(b) /\ p.dir # "aligned" /\ ~Intermediate(p))
                  => (res[b].kind = "raise" /\ res[b].exc = "ValueError"
                      /\ p \in res[b].leftover)

C15_Witness ==
    \E b \in 1 .. Len(res) :
        /\ CleanupRan(b)
        /\ res[b].exc = "ValueError"
        /\ \E p \in res[b].leftover : p.dir = "tiff" /\ Last(p.name) = ".dng"
        /\ \E p \in deleted : p.dir = "aligned"

(* C16: when KeyboardInterrupt arrives while a bracket is converting,
   aligning or fusing, the bracket's clean-up runs before the interrupt
   leaves process_bracket: every intermediate file the bracket created so
   far is deleted by then. *)
C16_InterruptCleansUp ==
    \A b \in 1 .. Len(res) : res[b].fault = "interrupt" => res[b].leftover = {}

(* C17: no intermediate path (a converted TIFF, an output of
   align_image_stack, a renamed *_aligned.tif) is written by two brackets of
   one run: the names the brackets use in the shared tiff and aligned
   directories are disjoint, so that brackets active at the same time could
   not collide. *)
C17_BracketsWriteDisjointPaths ==
    \A a, b \in 1 .. Len(res) : a # b => res[a].written \cap res[b].written = {}

(* C18: the aligned photos a bracket passes to fusion were all created by
   that bracket's own alignment call: an output that an earlier bracket of
   the run left in hdr/aligned is never picked up, renamed and fused as part
   of a later bracket. *)
C18_FusesOnlyOwnAlignedOutputs ==
    pc = "fuse"
        => \A i \in 1 .. Len(images) :
              AlignedOut(i) \in created
                  \/ ~\E a \in 1 .. Len(res) : AlignedOut(i) \in res[a].written

\* the original RAW files of the run
Inputs ==
    UNION { {brackets[b][i].path : i \in 1 .. Len(brackets[b])} : b \in 1 .. Len(brackets) }

(* C21: no operation of the workflow deletes, renames or overwrites an input
   photo of a bracket: through every sequence of brackets, policies and stage
   failures each original RAW file is still on disk, and is none of the
   paths the run wrote, wrote over or deleted. *)
C21_InputsUntouched ==
    /\ Inputs \subseteq files
    /\ Inputs \cap (created \cup deleted \cup clobbered
                        \cup UNION {res[b].written : b \in 1 .. Len(res)}) = {}

C21_Witness ==
    /\ RunEnded
    /\ onconflict = "overwrite"
    /\ \E b \in 1 .. Len(res) :
          /\ res[b].kind = "photo" /\ Contains(res[b].calls, "enfuse") /\ res[b].existed
    /\ \E p \in deleted : p.dir = "tiff"
    /\ Inputs # {}
    /\ Inputs \subseteq files

(* C22: in dry-run mode no stage of the pipeline fails because an expected
   output file is absent: the existence checks after conversion, after
   alignment and after fusion are all skipped. *)
C22_DryRunSkipsExistenceChecks ==
    dry_run
        => \A b \in 1 .. Len(res) :
              res[b].fault \notin {"convert_missing", "align_missing", "fuse_missing"}

\* every bracket of the run was processed and gave an HDR
AllSucceeded ==
    /\ Len(res) = Len(brackets)
    /\ \A b \in 1 .. Len(res) : res[b].kind = "photo"

(* C23 as claimed: on every exit of run(), by return or by an exception,
   rmdir is attempted for hdr/tiff and hdr/aligned, and only after the last
   bracket's processing has ended; after a run in which every bracket
   succeeded both directories contain no files. *)
C23_RmdirAndEmptyDirectories ==
    /\ RunEnded => removed = <<"tiff", "aligned">>
    /\ removed # <<>> => RunEnded
    /\ (RunEnded /\ AllSucceeded) => \A p \in files : p.dir \notin {"tiff", "aligned"}

(* C23 as amended: on every exit of run(), by return or by an exception,
   rmdir is attempted for hdr/tiff and hdr/aligned, and only after the last
   bracket's processing has ended; after a run in which every bracket
   succeeded no file that the run created is left in either directory (a
   file that an earlier run left there stays when the policy is skip or
   rename). *)
C23_RmdirAndOwnFilesGone ==
    /\ RunEnded => removed = <<"tiff", "aligned">>
    /\ removed # <<>> => RunEnded
    /\ (RunEnded /\ AllSucceeded) => \A b \in 1 .. Len(res) : res[b].leftover = {}

C23_Witness ==
    /\ pc = "returned"
    /\ removed = <<"tiff", "aligned">>
    /\ AllSucceeded
    /\ Len(res) >= 2
    /\ \A b \in 1 .. Len(res) : Contains(res[b].calls, "enfuse") /\ res[b].written # {}
    /\ \A p \in files : p.dir \notin {"tiff", "aligned"}

(* C24: whenever align_images returns a non-empty list, the list is
   index-aligned with the photos handed to the alignment tool: it is as long
   as the list of converted files and its i-th element is named after the
   i-th converted photo, also when a skip decision left a photo out of the
   converted set. *)
C24_AlignedListMatchesConverted ==
    ( /\ pc = "align_finally"
      /\ pending.kind = "return"
      /\ images # <<>>
      /\ \A i \in 1 .. Len(tiff_files) : Last(tiff_files[i].path.name) = ".tif" )
        => /\ Len(images) = Len(tiff_files)
           /\ \A i \in 1 .. Len(images) :
                 i <= Len(tiff_files) => images[i].path.name[1] = tiff_files[i].path.name[1]

Count(seq, x) == Cardinality({i \in 1 .. Len(seq) : seq[i] = x})

\* the tools of a bracket in the order of its stages: all conversions before the one
\* alignment call, the one fusion call last
StagesInOrder(cl) ==
    LET aligns == { i \in 1 .. Len(cl) : cl[i] = "align_image_stack" }
    IN /\ Cardinality(aligns) <= 1
       /\ \A i \in 1 .. Len(cl) - 1 : cl[i] # "enfuse"
       /\ \A i \in aligns : \A j \in i + 1 .. Len(cl) : cl[j] # "darktable-cli"

(* C25: within one bracket the stages run in the order name and conflict
   resolution, convert, align, fuse, clean-up of the aligned files: the
   fusion tool is invoked at most once per bracket, only after alignment
   returned a non-empty list and never when it returned empty, and the
   aligned files are on disk until the fusion call has ended. *)
C25_StagesInOrder ==
    /\ StagesInOrder(calls)
    /\ pc = "convert" => (calls = <<>> /\ hdrpath # NoPath)
    /\ pc \in {"fuse", "cleanup"}
          => /\ images # <<>>
             /\ Contains(calls, "align_image_stack")
             /\ \A i \in 1 .. Len(images) : Exists(files, images[i].path)
    /\ pc = "fuse" => ~Contains(calls, "enfuse")
    /\ \A b \in 1 .. Len(res) :
          /\ StagesInOrder(res[b].calls)
          /\ Contains(res[b].calls, "enfuse")
                => /\ Contains(res[b].calls, "align_image_stack")
                   /\ res[b].fault \notin {"align_tool", "align_exif", "align_missing"}

C25_Witness ==
    /\ pc = "cleanup"
    /\ Last(calls) = "enfuse"
    /\ pending.kind = "return"
    /\ pending.value # None
    /\ Len(images) = Len(brackets[cur])
    /\ \A i \in 1 .. Len(images) : Exists(files, images[i].path)

(* C26 as claimed: under the overwrite policy a pre-existing HDR file at the
   bracket's output path is removed only when a new HDR is produced in its
   place: if the bracket fails in convert, align or fuse, the previous HDR
   file is still present after process_bracket ends. *)
C26_OverwriteKeepsOldHdrOnFailure ==
    \A b \in 1 .. Len(res) :
        (onconflict = "overwrite" /\ res[b].existed /\ res[b].fault \notin {"", "interrupt"})
            => res[b].hdr_after

(* C26 as amended: under the overwrite policy a pre-existing HDR file at the
   bracket's output path is deleted when the conflict is resolved, before
   conversion starts: if the bracket then ends without a new HDR, no file is
   at that path after process_bracket ends, and outside dry-run a bracket
   that returns an HDR leaves the new file there. *)
C26_OverwriteDeletesOldHdrFirst ==
    /\ (onconflict = "overwrite" /\ pc = "convert")
          => ~Exists(files, HdrPathOf(brackets[cur]))
    /\ \A b \in 1 .. Len(res) :
          (onconflict = "overwrite" /\ res[b].existed)
              => /\ res[b].kind # "photo" => ~res[b].hdr_after
                 /\ (res[b].kind = "photo" /\ ~dry_run) => res[b].hdr_after

C26_Witness ==
    \E b \in 1 .. Len(res) :
        /\ onconflict = "overwrite"
        /\ res[b].existed
        /\ res[b].fault = "fuse_tool"
        /\ res[b].kind = "none"
        /\ ~res[b].hdr_after

-----------------------------------------------------------------------------
(* C6: alignment is all-or-nothing: when, after the external alignment call,
   at least one expected output file is missing, the align operation returns
   an empty list to its caller; it never returns a partial list and never
   ends in any other way (an exception or a process exit). *)
C6_MissingOutputReturnsEmpty ==
    (pc = "hg_done" /\ hg.stack_ok /\ hg.missing)
        => (hg.ending = "return" /\ hg.result = <<>>)

(* C7: when HuginProvider.next succeeds (the alignment subprocess exits
   normally, every expected output exists and every metadata copy succeeds),
   it returns exactly one Photo per input photo, and the file of every
   returned Photo exists on disk at the moment next returns. *)
C7_SuccessReturnsExistingPhotos ==
    (pc = "hg_done" /\ hg.stack_ok /\ ~hg.missing /\ hg.exif_ok)
        => /\ hg.ending = "return"
           /\ Len(hg.result) = Len(hg.photos)
           /\ \A i \in 1 .. Len(hg.result) :
                 /\ hg.result[i].path = FinalPath(hg.photos[i])
                 /\ Exists(files, hg.result[i].path)

-----------------------------------------------------------------------------
(* C8: under the rename policy handle_conflict never returns a path at which
   a file already exists at call time, existence being judged in the
   directory of the conflicting desired path, where the caller writes. *)
C8_RenameReturnsFreePath ==
    (pc = "hc_done" /\ onconflict = "rename" /\ hc.out.kind = "path")
        => Join(hc.path.dir, hc.out.path) \notin hc.before

\* the desired path with the suffix i inserted before its extension
DesiredProbe(path, i) ==
    P(path.dir, Front(path.name) \o <<SuffixTok(i), Last(path.name)>>)

FreeProbes(path, fs) == { i \in 1 .. ProbeLimit : DesiredProbe(path, i) \notin fs }

(* C9: under the rename policy handle_conflict probes the desired path with
   the suffixes 1 .. 99 in increasing order and returns the probe with the
   smallest free index; when all 99 probes exist it fails with an error. *)
C9_RenameSmallestFreeProbe ==
    (pc = "hc_done" /\ onconflict = "rename")
        => IF FreeProbes(hc.path, hc.before) = {}
           THEN hc.out.kind = "raise"
           ELSE /\ hc.out.kind = "path"
                /\ hc.out.path.name
                     = DesiredProbe(hc.path, SetMin(FreeProbes(hc.path, hc.before))).name

(* C10: under the overwrite policy handle_conflict returns the path it was
   given, and the file that existed at that path before the call no longer
   exists when the call returns. *)
C10_OverwriteDeletesAndKeepsPath ==
    (pc = "hc_done" /\ onconflict = "overwrite")
        => /\ hc.out.kind = "path"
           /\ hc.out.path = hc.path
           /\ ~Exists(files, hc.path)

C10_Witness ==
    /\ pc = "hc_done"
    /\ onconflict = "overwrite"
    /\ hc.path \in hc.before
    /\ hc.out.path = hc.path
    /\ hc.path \notin files

(* C11: under the skip, rename and fail policies handle_conflict leaves the
   set of files on disk as it found it: it deletes, creates and renames
   nothing, whether it returns None, returns a new path or raises. *)
C11_OnlyOverwriteChangesDisk ==
    (pc = "hc_done" /\ onconflict \in {"skip", "rename", "fail"})
        => (files = hc.before /\ hc.out.files = hc.before)

C11_Witness ==
    /\ pc = "hc_done"
    /\ onconflict = "fail"
    /\ hc.out.kind = "raise"
    /\ hc.out.exc = "FileExistsError"
    /\ hc.path \in files
    /\ files = hc.before

-----------------------------------------------------------------------------
\* str.replace(' ', '-'), character by character
RECURSIVE Dashed(_)
Dashed(str) ==
    IF Len(str) = 0 THEN ""
    ELSE (IF SubSeq(str, 1, 1) = " " THEN "-" ELSE SubSeq(str, 1, 1))
            \o Dashed(SubSeq(str, 2, Len(str)))

HasSpace(str) == \E i \in 1 .. Len(str) : SubSeq(str, i, i) = " "

\* the long form as the camera and the lens spell it, every space turned into a dash
LongForm(photos) ==
    [i \in 1 .. Len(long_filename(photos, " ")) |-> Dashed(long_filename(photos, " ")[i])]

\* the short form {date}_{number}_x{size}_{ev}EV_hdr.tif
ShortForm(photos) ==
    <<photos[1].date, "_", ToString(photos[1].number), "_x", ToString(Len(photos)), "_",
      FloatStr(SeqSum([i \in 1 .. Len(photos) |-> photos[i].exposure_value]), Len(photos)),
      "EV", "_hdr", ".tif">>

\* len(os.path.join(output_dir, name))
PathLen(dirlen, name) == dirlen + 1 + NameLen(name)

(* C20: name_hdr (called as the workflow calls it, short left False) returns
   the long-form name, spaces replaced by dashes, when the resulting output
   path is at most 255 characters, and the short form
   {date}_{number}_x{size}_{ev}EV_hdr.tif when the long-form path exceeds 255
   characters; asked for the short form it returns the short form; the name
   it returns never contains a space. *)
C20_LongNameUnlessPathTooLong ==
    pc = "nm_done"
        => /\ ~nm.short
                => nm.result = (IF PathLen(nm.dirlen, LongForm(nm.photos)) <= 255
                                THEN LongForm(nm.photos) ELSE ShortForm(nm.photos))
           /\ nm.short => nm.result = ShortForm(nm.photos)
           /\ \A i \in 1 .. Len(nm.result) : ~HasSpace(nm.result[i])

C20_Witness ==
    /\ pc = "nm_done"
    /\ ~nm.short
    /\ Len(nm.photos[1].camera) > 1
    /\ PathLen(nm.dirlen, LongForm(nm.photos)) = 256
    /\ nm.result = ShortForm(nm.photos)

-----------------------------------------------------------------------------
(* InstaloaderRunner.run (scripts/archive/insta.py) *)

MaxProfiles == 2
MaxRetries == 2

ProfileNames == {"alice", "bob"}

\* the lists of at most MaxProfiles profile names, a name listed twice included
ProfileLists == UNION { [1 .. n -> ProfileNames] : n \in 0 .. MaxProfiles }

\* what one call of process_profile ends with: "" when it returns, else the class of
\* the exception it raises
Raised ==
    {"", "ConnectionException", "QueryReturnedNotFoundException",
     "PrivateProfileNotFollowedException", "TooManyRequestsException",
     "ProfileNotExistsException", "KeyboardInterrupt"}

\* the classes an exception is an instance of.  In instaloader.exceptions
\* QueryReturnedNotFoundException and TooManyRequestsException derive from
\* ConnectionException; KeyboardInterrupt is a BaseException and no Exception
Bases(e) ==
    CASE e = "ConnectionException" -> {e, "InstaloaderException", "Exception"}
      [] e = "QueryReturnedNotFoundException"
            -> {e, "ConnectionException", "InstaloaderException", "Exception"}
      [] e = "TooManyRequestsException"
            -> {e, "ConnectionException", "InstaloaderException", "Exception"}
      [] e = "PrivateProfileNotFollowedException" -> {e, "InstaloaderException", "Exception"}
      [] e = "ProfileNotExistsException" -> {e, "InstaloaderException", "Exception"}
      [] OTHER -> {e, "BaseException"}

\* lines 117, 128, 132, 136, 142: the except clauses of the try statement, in order
ExceptClauses ==
    <<"ConnectionException", "QueryReturnedNotFoundException",
      "PrivateProfileNotFollowedException", "TooManyRequestsException", "Exception">>

\* the except clause that handles e: the first one naming a class of e ("" = none)
ClauseOf(e) ==
    LET fits == { k \in 1 .. Len(ExceptClauses) : ExceptClauses[k] \in Bases(e) }
    IN IF fits = {} THEN ""
       ELSE ExceptClauses[CHOOSE k \in fits : \A other \in fits : k <= other]

\* lines 114-116: process_profile returned
Succeeded(st) ==
    [st EXCEPT !.success_profiles = Append(@, st.profiles[st.idx]),
               !.recorded[st.idx] = Append(@, "success"),
               !.ending = "break"]

\* lines 128-135 and 142-145: the profile is recorded as failed and its loop left
FailClause(st) ==
    [st EXCEPT !.failed_profiles = Append(@, st.profiles[st.idx]),
               !.recorded[st.idx] = Append(@, "failed"),
               !.ending = "break"]

ConnectionClauseLeavesUnrecorded(st) ==
    IF st.retries < st.max_retries
    THEN [st EXCEPT !.retries = @ + 1, !.delay = @ * 2]
    ELSE [st EXCEPT !.ending = "break"]

\* lines 117-127: sleep and retry while retries < max_retries, else record and leave
ConnectionClause(st) ==
    IF st.retries < st.max_retries
    THEN [st EXCEPT !.retries = @ + 1, !.delay = @ * 2]
    ELSE FailClause(st)

\* lines 136-141: sleep and retry
TooManyRequestsClause(st) == [st EXCEPT !.retries = @ + 1, !.delay = @ * 2]

\* lines 113-145: one pass of the try statement in which process_profile ends with e;
\* attempts lists what the calls made for the current profile ended with
Try(st, e) ==
    LET tried == [st EXCEPT !.attempts = Append(@, IF e = "" THEN "ok" ELSE e)]
    IN IF e = "" THEN Succeeded(tried)
       ELSE CASE ClauseOf(e) = "ConnectionException" -> ConnectionClause(tried)
              [] ClauseOf(e) = "TooManyRequestsException" -> TooManyRequestsClause(tried)
              [] ClauseOf(e) = "" -> [tried EXCEPT !.ending = e]
              [] OTHER -> FailClause(tried)

InitInsta ==
    /\ onconflict = "overwrite"
    /\ dry_run = FALSE
    /\ files = {}
    /\ pc = "ig_setup"
    /\ hc = NoCall
    /\ hg = NoHugin
    /\ nm = NoName
    /\ up = NoUpload
    /\ \E profiles \in ProfileLists, max_retries \in 0 .. MaxRetries :
          ig = [NoInsta EXCEPT !.profiles = profiles, !.max_retries = max_retries]
    /\ WorkflowIdle

\* lines 105-107: setup_instaloader logs in or raises ShouldTerminateException
SetupInstaloader ==
    /\ pc = "ig_setup"
    /\ \E ok \in BOOLEAN :
          IF ok THEN pc' = "ig_for" /\ ig' = ig
          ELSE pc' = "ig_done" /\ ig' = [ig EXCEPT !.ending = "ShouldTerminateException"]
    /\ UNCHANGED <<files, onconflict, dry_run, hc, hg, nm, up>>
    /\ UNCHANGED wfvars

\* lines 109-111: the for statement takes the next profile
ForProfile ==
    /\ pc = "ig_for"
    /\ ig.idx < Len(ig.profiles)
    /\ ig' = [ig EXCEPT !.idx = @ + 1, !.retries = 0, !.delay = 1,
                        !.attempts = <<>>, !.recorded = Append(@, <<>>),
                        !.ending = ""]
    /\ pc' = "ig_while"
    /\ UNCHANGED <<files, onconflict, dry_run, hc, hg, nm, up>>
    /\ UNCHANGED wfvars

\* lines 112-147: one test of the while condition and, when it holds, one pass of the
\* loop body; when it fails the else clause logs and the for statement goes on
WhileRetries ==
    /\ pc = "ig_while"
    /\ IF ig.retries <= ig.max_retries
       THEN \E e \in Raised :
               LET st == Try(ig, e)
               IN /\ ig' = st
                  /\ pc' = IF st.ending = "" THEN "ig_while"
                           ELSE IF st.ending = "break" THEN "ig_for" ELSE "ig_done"
       ELSE /\ ig' = [ig EXCEPT !.ending = "else"]
            /\ pc' = "ig_for"
    /\ UNCHANGED <<files, onconflict, dry_run, hc, hg, nm, up>>
    /\ UNCHANGED wfvars

\* lines 149, 164-169: report() after the last profile
Report ==
    /\ pc = "ig_for"
    /\ ig.idx = Len(ig.profiles)
    /\ ig' = [ig EXCEPT !.ending = "return"]
    /\ pc' = "ig_done"
    /\ UNCHANGED <<files, onconflict, dry_run, hc, hg, nm, up>>
    /\ UNCHANGED wfvars

NextInsta ==
    \/ SetupInstaloader
    \/ ForProfile
    \/ WhileRetries
    \/ Report

SpecInsta == InitInsta /\ [][NextInsta]_vars

\* the errors that the code means to end a profile's loop at once
EndsLoop ==
    {"QueryReturnedNotFoundException", "PrivateProfileNotFollowedException",
     "ProfileNotExistsException"}

\* the retry loop of the current profile has been left
LoopLeft == pc \in {"ig_for", "ig_done"}

(* C27: in InstaloaderRunner.run the retry loop of a profile calls
   process_profile at most max_retries + 1 times, whatever ConnectionException
   and TooManyRequestsException the calls raise; a profile-not-found,
   private-profile or unexpected error is the last attempt for its profile:
   the loop is left after it and the for statement goes on to the next
   profile. *)
C27_RetriesBoundedAndErrorsEndLoop ==
    /\ Len(ig.attempts) <= ig.max_retries + 1
    /\ \A j \in 1 .. Len(ig.attempts) :
          ig.attempts[j] \in EndsLoop => (j = Len(ig.attempts) /\ LoopLeft)

\* the names of the entries of ps recorded as tag, in order
RECURSIVE RecordedAs(_, _, _)
RecordedAs(ps, rec, tag) ==
    IF ps = <<>> THEN <<>>
    ELSE (IF rec[1] = <<tag>> THEN <<ps[1]>> ELSE <<>>)
            \o RecordedAs(Tail(ps), Tail(rec), tag)

(* C28: when run() reaches report(), every entry of the profiles list has
   been recorded exactly once, in _success_profiles or in _failed_profiles:
   the two lists hold the entries recorded as successes and as failures and
   nothing else, and a name listed once is in exactly one of the two lists,
   for every sequence of outcomes of process_profile, retries exhausted by
   repeated TooManyRequestsException included. *)
C28_EveryProfileRecordedOnce ==
    (pc = "ig_done" /\ ig.ending = "return")
        => /\ Len(ig.recorded) = Len(ig.profiles)
           /\ \A i \in 1 .. Len(ig.profiles) : ig.recorded[i] \in {<<"success">>, <<"failed">>}
           /\ ig.success_profiles = RecordedAs(ig.profiles, ig.recorded, "success")
           /\ ig.failed_profiles = RecordedAs(ig.profiles, ig.recorded, "failed")
           /\ \A i \in 1 .. Len(ig.profiles) :
                 Count(ig.profiles, ig.profiles[i]) = 1
                     => (Contains(ig.success_profiles, ig.profiles[i])
                            <=> ~Contains(ig.failed_profiles, ig.profiles[i]))

C28_Witness ==
    /\ pc = "ig_done"
    /\ ig.ending = "return"
    /\ ig.max_retries >= 1
    /\ Len(ig.attempts) = ig.max_retries + 1
    /\ \A k \in 1 .. Len(ig.attempts) : ig.attempts[k] = "TooManyRequestsException"
    /\ ig.recorded[Len(ig.profiles)] = <<"failed">>
    /\ Contains(ig.failed_profiles, ig.profiles[Len(ig.profiles)])
    /\ \E j \in 1 .. Len(ig.profiles) : ig.recorded[j] = <<"success">>

-----------------------------------------------------------------------------
(* ImmichProgressiveUploader.upload (scripts/thumbnails/upload/progressive.py) *)

MaxDirectories == 2
MaxFiles == 2
MaxThreads == 2

\* a directory: whether status.directory_changed() answers True, and how many entries
\* directory.iterdir() yields
Directories == [changed : BOOLEAN, files : 0 .. MaxFiles]

DirectoryLists == UNION { [1 .. n -> Directories] : n \in 0 .. MaxDirectories }

\* line 166: Status(directory=directory), as loaded from the status file
Status == [last_processed_time |-> "old", saves |-> 0]

\* the futures whose call has ended, by returning or by raising
Done(futures) == { i \in 1 .. Len(futures) : futures[i] \in {"returned", "raised"} }

\* line 177: leaving the with statement calls executor.shutdown(wait=True), which
\* returns when every submitted call has ended
Shutdown(futures) == Done(futures) = 1 .. Len(futures)

InitUpload ==
    /\ onconflict = "overwrite"
    /\ dry_run = FALSE
    /\ files = {}
    /\ pc = "up_for"
    /\ hc = NoCall
    /\ hg = NoHugin
    /\ nm = NoName
    /\ ig = NoInsta
    /\ \E directories \in DirectoryLists, max_threads \in 1 .. MaxThreads :
          up = [NoUpload EXCEPT !.directories = directories, !.max_threads = max_threads,
                                !.status = [k \in 1 .. Len(directories) |-> Status]]
    /\ WorkflowIdle

\* lines 165-177: the for statement takes the next directory; an unchanged one is
\* skipped, for a changed one the executor is created
ForDirectory ==
    /\ pc = "up_for"
    /\ up.d < Len(up.directories)
    /\ LET dir == up.directories[up.d + 1]
       IN IF ~dir.changed
          THEN /\ up' = [up EXCEPT !.d = @ + 1, !.futures = <<>>, !.result = <<>>,
                                   !.attempts = <<>>, !.updates = <<>>, !.fetched = {}]
               /\ pc' = "up_for"
          ELSE /\ up' = [up EXCEPT !.d = @ + 1, !.futures = <<>>, !.result = <<>>,
                                   !.attempts = [i \in 1 .. dir.files |-> 0],
                                   !.updates = [i \in 1 .. dir.files |-> <<>>],
                                   !.fetched = {}]
               /\ pc' = IF dir.files = 0 THEN "up_exit" ELSE "up_submit"
    /\ UNCHANGED <<files, onconflict, dry_run, hc, hg, nm, ig>>
    /\ UNCHANGED wfvars

\* lines 179-181: one file is submitted to the executor
Submit ==
    /\ pc = "up_submit"
    /\ up' = [up EXCEPT !.futures = Append(@, "queued"), !.result = Append(@, "")]
    /\ pc' = IF Len(up.futures) + 1 = up.directories[up.d].files THEN "up_wait"
             ELSE "up_submit"
    /\ UNCHANGED <<files, onconflict, dry_run, hc, hg, nm, ig>>
    /\ UNCHANGED wfvars

\* a worker thread of the executor takes a queued call; at most max_threads run at once
Start(i) ==
    /\ up.futures[i] = "queued"
    /\ Cardinality({ j \in 1 .. Len(up.futures) : up.futures[j] = "running" }) < up.max_threads
    /\ up' = [up EXCEPT !.futures[i] = "running"]
    /\ UNCHANGED <<files, onconflict, dry_run, pc, hc, hg, nm, ig>>
    /\ UNCHANGED wfvars

\* lines 111-117: _upload_file returns True or False and update_status is called with
\* what it returned, or _upload_file raises (subprocess.run without the immich
\* program, say) and the call ends there
upload_file_threadsafe(st, i, success) ==
    IF success = "raise"
    THEN [st EXCEPT !.attempts[i] = @ + 1, !.result[i] = success, !.futures[i] = "raised"]
    ELSE [st EXCEPT !.attempts[i] = @ + 1, !.result[i] = success,
                    !.updates[i] = Append(@, success), !.futures[i] = "returned"]

Worker(i) ==
    /\ up.futures[i] = "running"
    /\ \E success \in {"True", "False", "raise"} :
          up' = upload_file_threadsafe(up, i, success)
    /\ UNCHANGED <<files, onconflict, dry_run, pc, hc, hg, nm, ig>>
    /\ UNCHANGED wfvars

\* lines 183-191: as_completed yields a future whose call has ended and result()
\* returns or raises what the call raised
AsCompleted ==
    /\ pc = "up_wait"
    /\ \E i \in Done(up.futures) \ up.fetched :
          IF up.futures[i] = "raised"
          THEN /\ up' = [up EXCEPT !.fetched = @ \cup {i}, !.pending = "Exception"]
               /\ pc' = "up_exit"
          ELSE /\ up' = [up EXCEPT !.fetched = @ \cup {i}]
               /\ pc' = IF up.fetched \cup {i} = 1 .. Len(up.futures) THEN "up_exit"
                        ELSE "up_wait"
    /\ UNCHANGED <<files, onconflict, dry_run, hc, hg, nm, ig>>
    /\ UNCHANGED wfvars

\* line 177: the with statement is left, by the end of its body or by an exception
ExitWith ==
    /\ pc = "up_exit"
    /\ Shutdown(up.futures)
    /\ pc' = "up_finally"
    /\ UNCHANGED <<files, onconflict, dry_run, hc, hg, nm, ig, up>>
    /\ UNCHANGED wfvars

\* lines 192-195: the finally clause, then the next directory or the exception
Finally ==
    /\ pc = "up_finally"
    /\ up' = [up EXCEPT !.status[up.d] = [last_processed_time |-> "now", saves |-> @.saves + 1],
                        !.ending = up.pending]
    /\ pc' = IF up.pending = "" THEN "up_for" ELSE "up_done"
    /\ UNCHANGED <<files, onconflict, dry_run, hc, hg, nm, ig>>
    /\ UNCHANGED wfvars

\* upload() returns after the last directory
UploadReturns ==
    /\ pc = "up_for"
    /\ up.d = Len(up.directories)
    /\ up' = [up EXCEPT !.ending = "return"]
    /\ pc' = "up_done"
    /\ UNCHANGED <<files, onconflict, dry_run, hc, hg, nm, ig>>
    /\ UNCHANGED wfvars

NextUpload ==
    \/ ForDirectory
    \/ Submit
    \/ \E i \in 1 .. Len(up.futures) : Start(i)
    \/ \E i \in 1 .. Len(up.futures) : Worker(i)
    \/ AsCompleted
    \/ ExitWith
    \/ Finally
    \/ UploadReturns

SpecUpload == InitUpload /\ [][NextUpload]_vars

\* status.save() has been called for the directory the loop is at
Saved == up.d >= 1 /\ up.status[up.d].saves >= 1

\* what holds of every directory whatever its files do: an unchanged directory gets no
\* upload attempt and no save, a changed one is saved once, after its last call ended,
\* and no file is attempted twice
OneAttemptAndSaveAfterAll ==
    /\ \A k \in 1 .. Len(up.status) :
          /\ up.status[k].saves <= 1
          /\ (up.status[k].saves = 1) <=> (up.status[k].last_processed_time = "now")
          /\ ~up.directories[k].changed => up.status[k].saves = 0
          /\ (up.directories[k].changed
                /\ (k < up.d \/ (k = up.d /\ pc \in {"up_for", "up_done"})))
                => up.status[k].saves = 1
          /\ k > up.d => up.status[k].saves = 0
    /\ (up.d >= 1 /\ ~up.directories[up.d].changed) => (up.futures = <<>> /\ up.attempts = <<>>)
    /\ \A i \in 1 .. Len(up.attempts) : up.attempts[i] <= 1
    /\ Saved => /\ Len(up.futures) = up.directories[up.d].files
                /\ Done(up.futures) = 1 .. Len(up.futures)
                /\ \A i \in 1 .. Len(up.attempts) : up.attempts[i] = 1

(* C29: in upload(), for each directory that has changed, every
   file of the directory gets exactly one upload attempt and exactly one
   status.update_status call with that attempt's result, and
   last_processed_time is set and status.save() is called only after all
   upload tasks submitted for the directory have finished, on every path, a
   worker raising an exception included; a directory reported unchanged gets
   no upload attempt and no save. *)
C29_EveryFileUploadedAndRecorded ==
    /\ OneAttemptAndSaveAfterAll
    /\ Saved => \A i \in 1 .. Len(up.updates) : Len(up.updates[i]) = 1

\* what the code does with a call that raises: the file has its one attempt and no
\* update_status call, every other file one call with what its attempt returned
ReturnedResultsRecorded ==
    /\ OneAttemptAndSaveAfterAll
    /\ Saved => \A i \in 1 .. Len(up.updates) :
                   up.updates[i] = (IF up.result[i] = "raise" THEN <<>> ELSE <<up.result[i]>>)

====
